---- MODULE Spec2Model ----
(***************************************************************************)
(* Local-first registry synchronisation engine of recettier:               *)
(*   LocalStorageService  (src/src/services/localStorage.ts)               *)
(*   IngredientsService   (src/unnamed/part_012, services/ingredients.ts)  *)
(*   GoogleDriveService   (src/unnamed/part_011, services/googleDrive.ts)  *)
(*                                                                         *)
(* A JavaScript object map (Record<string, T>) is a sequence of entities   *)
(* with distinct ids, in property insertion order.  An entity is a record; *)
(* an optional property is UNDEF when the key is present with the value    *)
(* undefined and ABSENT when the key is missing.  A timestamp is           *)
(* [kind, t]: a Date object or the ISO string JSON turns it into.          *)
(* A category carries two of its optional properties, description and      *)
(* color; `keys` lists the optional keys the object has, in property       *)
(* order, which is the order JSON.stringify writes them in.                *)
(***************************************************************************)
EXTENDS Integers, Sequences, FiniteSets, TLC

\* ---------------------------------------------------------------- bounds
MaxTime == 4
MaxWaiting == 2

Clients == {"A", "B"}
Tabs == {"t1", "t2"}
Callers == Tabs \cup {"sync"}
Editor == "A"
Reader == "B"
CatIds == {"c1", "c2"}
IngIds == {"i1"}
Names == {"n1", "n2"}

UNDEF == "undefined"
ABSENT == "absent"
Descs == {UNDEF, "d1"}
Colors == {UNDEF, "red"}
OptionalKeys == <<"description", "color">>
NoTime == -1

VARIABLES
  now,        \* the wall clock read by new Date()
  db,         \* per client: the record stored in IndexedDB under DATA_KEY
  remote,     \* the registry files on the Drive, in the order of creation; the id is the position
  isLoading,  \* per client: IngredientsService.isLoading
  op,         \* per client: the service call in flight
  pc,         \* per client: position inside the call in flight
  found,      \* per client: handle returned by the last findFileByName (0 = null)
  registry,   \* per client: the registry the call in flight loads or saves
  before,     \* per client: stored record when the last sync call started
  docAtStart, \* per client: a registry file existed when that call started
  caught,     \* per client: the step whose error the catch of pull received
  last,       \* the last finished call: client, name, outcome
  focus,      \* per client: the entity the latest CRUD calls worked on
  tabs,       \* per tab of the editor: the store call whose cycle is open
  waiting,    \* per client: callers of initialize() inside its wait loop
  folders,    \* the folders of the Drive, in the order of creation; the id is the position
  parents,    \* per file of `remote`: the id of its folder (0 = file deleted)
  appFolders, \* per client: GoogleDriveService.appFolders (ids 0 = null)
  discovery   \* per client: the locals of the discoverAppFolders in flight

vars == <<now, db, remote, isLoading, op, pc, found, registry, before,
          docAtStart, caught, last, focus, tabs, waiting, folders, parents,
          appFolders, discovery>>

\* ------------------------------------------------------------ object maps
MapHas(m, id) == \E i \in 1..Len(m) : m[i].id = id
MapGet(m, id) == m[CHOOSE i \in 1..Len(m) : m[i].id = id]
MapKeys(m) == {m[i].id : i \in 1..Len(m)}
\* m[v.id] = v : an existing key keeps its position, a new key goes last
MapPut(m, v) ==
  IF MapHas(m, v.id)
  THEN [i \in 1..Len(m) |-> IF m[i].id = v.id THEN v ELSE m[i]]
  ELSE Append(m, v)
\* delete m[id]
MapDelete(m, id) == SelectSeq(m, LAMBDA e : e.id # id)

\* ------------------------------------------------------------------ JSON
DateOf(t) == [kind |-> "Date", t |-> t]
JSONTime(d) == [kind |-> "string", t |-> d.t]
\* value of the optional property k of category c
Opt(c, k) == IF k = "description" THEN c.description ELSE c.color
\* JSON.stringify writes the properties in key order and drops a property
\* whose value is undefined
JSONCat(c) ==
  [c EXCEPT !.description = IF @ = UNDEF THEN ABSENT ELSE @,
            !.color = IF @ = UNDEF THEN ABSENT ELSE @,
            !.keys = SelectSeq(@, LAMBDA k : Opt(c, k) # UNDEF)]
JSONIng(g) == [g EXCEPT !.category = JSONCat(@), !.updatedAt = JSONTime(@)]
JSONOf(type, v) == IF type = "ingredient" THEN JSONIng(v) ELSE JSONCat(v)
JSONCats(m) == [i \in 1..Len(m) |-> JSONCat(m[i])]
JSONIngs(m) == [i \in 1..Len(m) |-> JSONIng(m[i])]
\* JSON.parse(JSON.stringify(registry, null, 2))
JSONRegistry(r) ==
  [ingredients |-> JSONIngs(r.ingredients),
   categories |-> JSONCats(r.categories),
   lastUpdated |-> JSONTime(r.lastUpdated),
   totalIngredients |-> r.totalIngredients,
   totalCategories |-> r.totalCategories]

\* ----------------------------------------------------- LocalStorageService
NothingStored ==
  [exists |-> FALSE, ingredients |-> <<>>, categories |-> <<>>,
   baselineIngredients |-> <<>>, baselineCategories |-> <<>>,
   pendingChanges |-> <<>>, lastLocalUpdate |-> NoTime, lastSyncTime |-> NoTime]

\* getLocalData: the stored record, or the empty default stamped with the clock
getLocalData(c) ==
  IF db[c].exists THEN db[c]
  ELSE [NothingStored EXCEPT !.exists = TRUE, !.lastLocalUpdate = now]

Change(type, operation, v) == [type |-> type, operation |-> operation, data |-> v]

\* crypto.randomUUID(): a value no other draw returns.  The k-th draw of a
\* call is named by the clock reading t of the call, which every call advances.
randomUUID(t, k) == <<t, k>>

\* the entries as pushed by a recalculation at time t: each with a fresh id
\* and timestamp: new Date()
Stamp(changes, t) ==
  [k \in 1..Len(changes) |->
     [id |-> randomUUID(t, k), type |-> changes[k].type,
      operation |-> changes[k].operation, timestamp |-> t,
      data |-> changes[k].data]]

\* first loop of recalculatePendingChanges: creates and updates, in key order of current
RECURSIVE CurrentChanges(_, _, _, _)
CurrentChanges(type, cur, base, i) ==
  IF i > Len(cur) THEN <<>>
  ELSE LET v == cur[i]
           here == IF ~MapHas(base, v.id)
                   THEN <<Change(type, "create", v)>>
                   ELSE IF JSONOf(type, v) # JSONOf(type, MapGet(base, v.id))
                        THEN <<Change(type, "update", v)>>
                        ELSE <<>>
       IN here \o CurrentChanges(type, cur, base, i + 1)

\* recalculatePendingChanges without its second loop
BaselineChangesSkipped(type, cur, base, i) == <<>>

\* second loop: deletes, in key order of baseline
RECURSIVE BaselineChanges(_, _, _, _)
BaselineChanges(type, cur, base, i) ==
  IF i > Len(base) THEN <<>>
  ELSE (IF ~MapHas(cur, base[i].id)
        THEN <<Change(type, "delete", base[i])>> ELSE <<>>)
       \o BaselineChanges(type, cur, base, i + 1)

\* a recalculation that runs the delete loop of a kind before the other loop
KindChangesDeletesFirst(type, cur, base) ==
  BaselineChanges(type, cur, base, 1) \o CurrentChanges(type, cur, base, 1)

KindChanges(type, cur, base) ==
  CurrentChanges(type, cur, base, 1) \o BaselineChanges(type, cur, base, 1)

\* ingredients first, then categories
AllChanges(data) ==
  KindChanges("ingredient", data.ingredients, data.baselineIngredients)
  \o KindChanges("category", data.categories, data.baselineCategories)

recalculatePendingChanges(data) ==
  [data EXCEPT !.pendingChanges = Stamp(AllChanges(data), now)]

\* addPendingChange: drop the entries for the same entity, push the new one
addPendingChange(data, change) ==
  [data EXCEPT
     !.pendingChanges =
        Append(SelectSeq(@, LAMBDA e : ~(e.type = change.type
                                         /\ e.data.id = change.data.id)),
               [id |-> randomUUID(now, 1), type |-> change.type,
                operation |-> change.operation, timestamp |-> now,
                data |-> change.data]),
     !.lastLocalUpdate = now]

\* clearPendingChanges that forgets to advance the baseline
clearPendingChangesKeepsBaseline(data) == [data EXCEPT !.pendingChanges = <<>>]

clearPendingChanges(data) ==
  [data EXCEPT !.pendingChanges = <<>>,
               !.baselineIngredients = data.ingredients,
               !.baselineCategories = data.categories]

\* updateLastSyncTime that drops the new sync time
updateLastSyncTimeLost(data, t) == data

updateLastSyncTime(data, t) == [data EXCEPT !.lastSyncTime = t]

\* loadFromRegistry that leaves the pending list as it was
loadFromRegistryKeepsPending(data, r) ==
  [data EXCEPT !.ingredients = r.ingredients,
               !.categories = r.categories,
               !.baselineIngredients = r.ingredients,
               !.baselineCategories = r.categories,
               !.lastSyncTime = r.lastUpdated.t]

loadFromRegistry(data, r) ==
  [data EXCEPT !.ingredients = r.ingredients,
               !.categories = r.categories,
               !.baselineIngredients = r.ingredients,
               !.baselineCategories = r.categories,
               !.lastSyncTime = r.lastUpdated.t,
               !.pendingChanges = <<>>]

\* addCategory / updateCategory of the store: upsert, stamp, recalculate
storePutCategory(data, category) ==
  recalculatePendingChanges(
    [data EXCEPT !.categories = MapPut(@, category), !.lastLocalUpdate = now])

\* addIngredient of the store that saves without recalculating
storePutIngredientNoRecalc(data, ingredient) ==
  [data EXCEPT !.ingredients = MapPut(@, ingredient), !.lastLocalUpdate = now]

storePutIngredient(data, ingredient) ==
  recalculatePendingChanges(
    [data EXCEPT !.ingredients = MapPut(@, ingredient), !.lastLocalUpdate = now])

\* deleteCategory that saves without recalculating the pending changes
storeDeleteCategoryNoRecalc(data, id) ==
  [data EXCEPT !.categories = MapDelete(@, id), !.lastLocalUpdate = now]

storeDeleteCategory(data, id) ==
  recalculatePendingChanges(
    [data EXCEPT !.categories = MapDelete(@, id), !.lastLocalUpdate = now])

storeDeleteIngredient(data, id) ==
  recalculatePendingChanges(
    [data EXCEPT !.ingredients = MapDelete(@, id), !.lastLocalUpdate = now])

\* ------------------------------------------------------- IngredientsService
createDefaultRegistry ==
  [ingredients |-> <<>>, categories |-> <<>>, lastUpdated |-> DateOf(now),
   totalIngredients |-> 0, totalCategories |-> 0]

NoRegistry ==
  [ingredients |-> <<>>, categories |-> <<>>, lastUpdated |-> DateOf(0),
   totalIngredients |-> 0, totalCategories |-> 0]

\* the order in which a caller may write the optional keys of a category
KeyOrders == {<<"description", "color">>, <<"color", "description">>}

\* a caller with no store cycle open
NoCall == [phase |-> "idle", call |-> "none", kind |-> "none", type |-> "none",
           arg |-> "none", given |-> [id |-> "none"],
           seen |-> NothingStored, data |-> NothingStored]

\* no service call of the synchronizer and no CRUD call is in flight
Idle ==
  /\ \A c \in Clients : pc[c] = "idle"
  /\ \A c \in Clients, t \in Tabs : tabs[c][t].phase = "idle"

\* the call `name` of a caller: the kind of change it makes to the entity
\* `id` of kind `type`, and the value it gives to the store method
Call(name, kind, type, id, given) ==
  [NoCall EXCEPT !.call = name, !.kind = kind, !.type = type, !.arg = id,
                 !.given = given]

\* the first caller of client c that has no call in flight
HasFree(c) == \E t \in Tabs : tabs[c][t].phase = "idle"
FreeTab(c) == IF tabs[c]["t1"].phase = "idle" THEN "t1" ELSE "t2"

NoFocus == [type |-> "none", id |-> "none", ops |-> <<>>, fresh |-> FALSE, clean |-> FALSE]

\* the run of consecutive CRUD calls on one entity since the last sync: the
\* calls that stored something, whether the id was missing from baseline when
\* the run began (fresh) and whether pendingChanges was empty then (clean)
Track(c, kind, type, id, data) ==
  LET z == focus[c]
      base == IF type = "ingredient" THEN data.baselineIngredients
              ELSE data.baselineCategories
  IN IF z.type = type /\ z.id = id
     THEN [z EXCEPT !.ops = Append(@, kind)]
     ELSE [type |-> type, id |-> id, ops |-> <<kind>>,
           fresh |-> ~MapHas(base, id),
           clean |-> data.pendingChanges = <<>>]

Called(c, name, outcome) ==
  last' = [client |-> c, op |-> name, outcome |-> outcome, hadDoc |-> FALSE,
           caught |-> "none"]

DriveUnchanged == UNCHANGED <<folders, parents, appFolders, discovery>>

SyncUnchanged ==
  /\ UNCHANGED <<remote, isLoading, op, pc, found, registry, docAtStart, caught,
                 waiting>>
  /\ DriveUnchanged

\* saveLocalData that keeps the stored record when it is newer than the copy
saveLocalDataKeepsNewer(stored, data) ==
  IF stored.exists /\ stored.lastLocalUpdate > data.lastLocalUpdate
  THEN stored ELSE data

\* saveLocalData: store.put(data, DATA_KEY) replaces the stored record
saveLocalData(stored, data) == data

\* the store method of `call` got the record: it changed the object it was
\* given into `data` at clock `now` and has called saveLocalData(data), not
\* yet answered
Loaded(c, t, call, data) ==
  /\ now < MaxTime
  /\ now' = now + 1
  /\ tabs' = [tabs EXCEPT ![c][t] =
                [call EXCEPT !.phase = "put", !.seen = getLocalData(c),
                             !.data = data]]
  /\ UNCHANGED <<db, focus, before, last>>
  /\ SyncUnchanged

\* the service method of `call` has called another method of the store whose
\* getLocalData() is not yet answered: the store method that writes (phase
\* "load") or the second lookup of updateIngredient (phase "find")
Given(c, t, phase, call) ==
  /\ tabs' = [tabs EXCEPT ![c][t] = [call EXCEPT !.phase = phase]]
  /\ UNCHANGED <<now, db, focus, before, last>>
  /\ SyncUnchanged

\* the call of caller t throws `error`: nothing is stored.  The clock
\* advances once in every call that reads it or whose request fails: here
\* when a request fails in a call that has not stamped the record yet
Thrown(c, t, error) ==
  /\ tabs' = [tabs EXCEPT ![c][t] = NoCall]
  /\ Called(c, tabs[c][t].call, error)
  /\ IF error = "error" /\ tabs[c][t].phase # "put"
     THEN now < MaxTime /\ now' = now + 1
     ELSE UNCHANGED now
  /\ UNCHANGED <<db, focus, before>>
  /\ SyncUnchanged

\* a CRUD call that threw or returned before it called a store method that
\* writes: nothing is stored
Untouched(c, name, outcome) ==
  /\ Called(c, name, outcome)
  /\ UNCHANGED <<now, db, focus, before, tabs>>
  /\ SyncUnchanged

\* the first getLocalData() of a CRUD call fails: the call rejects and
\* nothing is stored; the clock has advanced when the failure arrives
Failed(c, name) ==
  /\ now < MaxTime
  /\ now' = now + 1
  /\ Called(c, name, "error")
  /\ UNCHANGED <<db, focus, before, tabs>>
  /\ SyncUnchanged

\* IngredientsService.addCategory -> localDB.addCategory, up to its
\* saveLocalData(data)
AddCategory(c, id, name, desc, color) ==
  /\ HasFree(c)
  /\ \E ok \in BOOLEAN :
       IF ~ok THEN Failed(c, "addCategory")
       ELSE LET category == [id |-> id, name |-> name, description |-> desc,
                             color |-> color, keys |-> OptionalKeys]
            IN Loaded(c, FreeTab(c),
                      Call("addCategory", "create", "category", id, category),
                      storePutCategory(getLocalData(c), category))

\* IngredientsService.updateCategory up to its localDB.updateCategory(updated);
\* the caller wrote the optional keys it gave in the order `order`
UpdateCategory(c, id, name, desc, color, order) ==
  /\ HasFree(c)
  /\ \E ok \in BOOLEAN :
       IF ~ok THEN Failed(c, "updateCategory")
       ELSE LET data == getLocalData(c)
            IN IF ~MapHas(data.categories, id)
               THEN Untouched(c, "updateCategory", "Category not found")
               ELSE LET existing == MapGet(data.categories, id)
                        given == [description |-> desc, color |-> color]
                        \* { ...existing, ...data }: a key of data that existing
                        \* lacks goes after the keys of existing, in the order
                        \* of data
                        updated ==
                          [id |-> id,
                           name |-> IF name = ABSENT THEN existing.name ELSE name,
                           description |-> IF desc = ABSENT
                                           THEN existing.description ELSE desc,
                           color |-> IF color = ABSENT
                                     THEN existing.color ELSE color,
                           keys |-> existing.keys \o
                                    SelectSeq(order,
                                      LAMBDA k : given[k] # ABSENT
                                                 /\ Opt(existing, k) = ABSENT)]
                    IN Given(c, FreeTab(c), "load",
                             Call("updateCategory", "update", "category", id, updated))

\* deleteCategory without the test for the id
DeleteCategoryUnguarded(c, id) ==
  /\ HasFree(c)
  /\ \E ok \in BOOLEAN :
       IF ~ok THEN Failed(c, "deleteCategory")
       ELSE Loaded(c, FreeTab(c),
                   Call("deleteCategory", "delete", "category", id, [id |-> id]),
                   storeDeleteCategory(getLocalData(c), id))

\* a deleteCategory that also removes the ingredients of the category
DeleteCategoryCascades(c, id) ==
  /\ HasFree(c)
  /\ \E ok \in BOOLEAN :
       IF ~ok THEN Failed(c, "deleteCategory")
       ELSE LET data == getLocalData(c)
                pruned == [data EXCEPT !.ingredients =
                             SelectSeq(@, LAMBDA i : i.category.id # id)]
            IN IF MapHas(data.categories, id)
               THEN Loaded(c, FreeTab(c),
                           Call("deleteCategory", "delete", "category", id, [id |-> id]),
                           storeDeleteCategory(pruned, id))
               ELSE Untouched(c, "deleteCategory", "ok")

\* IngredientsService.deleteCategory -> localDB.deleteCategory, up to its
\* saveLocalData(data)
DeleteCategory(c, id) ==
  /\ HasFree(c)
  /\ \E ok \in BOOLEAN :
       IF ~ok THEN Failed(c, "deleteCategory")
       ELSE LET data == getLocalData(c)
            IN IF MapHas(data.categories, id)
               THEN Loaded(c, FreeTab(c),
                           Call("deleteCategory", "delete", "category", id, [id |-> id]),
                           storeDeleteCategory(data, id))
               ELSE Untouched(c, "deleteCategory", "ok")

\* addIngredient that does not throw when the category is missing
AddIngredientStoresFirst(c, id, name, categoryId) ==
  /\ HasFree(c)
  /\ \E ok \in BOOLEAN :
       IF ~ok THEN Failed(c, "addIngredient")
       ELSE LET data == getLocalData(c)
                category == IF MapHas(data.categories, categoryId)
                            THEN MapGet(data.categories, categoryId)
                            ELSE [id |-> categoryId, name |-> UNDEF,
                                  description |-> ABSENT, color |-> ABSENT,
                                  keys |-> <<>>]
                ingredient == [id |-> id, name |-> name, category |-> category,
                               categoryId |-> ABSENT, updatedAt |-> DateOf(now)]
            IN Given(c, FreeTab(c), "load",
                     Call("addIngredient", "create", "ingredient", id, ingredient))

\* IngredientsService.addIngredient up to its localDB.addIngredient(ingredient)
AddIngredient(c, id, name, categoryId) ==
  /\ HasFree(c)
  /\ \E ok \in BOOLEAN :
       IF ~ok THEN Failed(c, "addIngredient")
       ELSE LET data == getLocalData(c)
            IN IF ~MapHas(data.categories, categoryId)
               THEN Untouched(c, "addIngredient", "Category not found")
               ELSE LET ingredient ==
                          [id |-> id, name |-> name,
                           category |-> MapGet(data.categories, categoryId),
                           categoryId |-> ABSENT,
                           updatedAt |-> DateOf(now)]
                    IN Given(c, FreeTab(c), "load",
                             Call("addIngredient", "create", "ingredient", id,
                                  ingredient))

\* IngredientsService.updateIngredient up to its second lookup, or up to its
\* localDB.updateIngredient(updated) when the category does not change
UpdateIngredient(c, id, name, categoryId) ==
  /\ HasFree(c)
  /\ \E ok \in BOOLEAN :
       IF ~ok THEN Failed(c, "updateIngredient")
       ELSE LET data == getLocalData(c)
            IN IF ~MapHas(data.ingredients, id)
               THEN Untouched(c, "updateIngredient", "Ingredient not found")
               ELSE LET existing == MapGet(data.ingredients, id)
                        change == categoryId # ABSENT
                                  /\ categoryId # existing.category.id
                        updated ==
                          [id |-> id,
                           name |-> IF name = ABSENT THEN existing.name ELSE name,
                           category |-> existing.category,
                           categoryId |-> IF categoryId = ABSENT
                                          THEN existing.categoryId ELSE categoryId,
                           updatedAt |-> DateOf(now)]
                    IN Given(c, FreeTab(c), IF change THEN "find" ELSE "load",
                             Call("updateIngredient", "update", "ingredient", id,
                                  updated))

\* updateIngredient: await localDB.getCategoriesArray(); find the new category
FindCategory(c, t) ==
  /\ tabs[c][t].phase = "find"
  /\ \E ok \in BOOLEAN :
       IF ~ok THEN Thrown(c, t, "error")
       ELSE LET data == getLocalData(c)
                call == tabs[c][t]
            IN IF ~MapHas(data.categories, call.given.categoryId)
               THEN Thrown(c, t, "Category not found")
               ELSE Given(c, t, "load",
                          [call EXCEPT
                             !.given.category =
                                MapGet(data.categories, call.given.categoryId),
                             !.given.updatedAt = DateOf(now)])

\* IngredientsService.deleteIngredient -> localDB.deleteIngredient, up to its
\* saveLocalData(data)
DeleteIngredient(c, id) ==
  /\ HasFree(c)
  /\ \E ok \in BOOLEAN :
       IF ~ok THEN Failed(c, "deleteIngredient")
       ELSE LET data == getLocalData(c)
            IN IF MapHas(data.ingredients, id)
               THEN Loaded(c, FreeTab(c),
                           Call("deleteIngredient", "delete", "ingredient", id,
                                [id |-> id]),
                           storeDeleteIngredient(data, id))
               ELSE Untouched(c, "deleteIngredient", "ok")

\* the object a store method holds after it loaded `data` and changed it with
\* the argument `given` it was called with
Mutate(call, type, data, given) ==
  CASE call = "clearPendingChanges" -> clearPendingChanges(data)
    [] call = "updateLastSyncTime" -> updateLastSyncTime(data, given.syncTime)
    [] call = "loadFromRegistry" -> loadFromRegistry(data, given.registry)
    [] OTHER -> IF type = "category" THEN storePutCategory(data, given)
                ELSE storePutIngredient(data, given)

\* the getLocalData() of a store method that was called with its argument is
\* answered: localDB.updateCategory / addIngredient / updateIngredient, or
\* clearPendingChanges / updateLastSyncTime / loadFromRegistry called on its own
StoreGet(c, t) ==
  /\ tabs[c][t].phase = "load"
  /\ \E ok \in BOOLEAN :
       IF ~ok THEN Thrown(c, t, "error")
       ELSE LET call == tabs[c][t]
            IN Loaded(c, t, call,
                      Mutate(call.call, call.type, getLocalData(c), call.given))

\* the saveLocalData(data) of a store method is answered: the record is
\* replaced and the call returns, or the put fails and the call rejects
StorePut(c, t) ==
  /\ tabs[c][t].phase = "put"
  /\ \E ok \in BOOLEAN :
       IF ~ok THEN Thrown(c, t, "error")
       ELSE LET call == tabs[c][t]
            IN /\ db' = [db EXCEPT ![c] = saveLocalData(@, call.data)]
               /\ tabs' = [tabs EXCEPT ![c][t] = NoCall]
               /\ focus' = [focus EXCEPT ![c] =
                              IF call.kind = "none" THEN @
                              ELSE Track(c, call.kind, call.type, call.arg,
                                         getLocalData(c))]
               /\ before' = [before EXCEPT ![c] =
                               IF call.kind = "none" THEN @ ELSE NothingStored]
               /\ Called(c, call.call, "ok")
               /\ UNCHANGED now
               /\ SyncUnchanged

\* ----------------------------------------------------- sync calls, by step
Local(c, data) == db' = [db EXCEPT ![c] = saveLocalData(@, data)]

\* ------------------------------------------------------------ Google Drive
\* the folders discoverAppFolders finds or creates, in its order; all but
\* the first are looked up and created inside the first
FolderNames == <<"Recettier", "ingredients", "recipes", "shopping-lists", "media">>
\* appFolders before the first discoverAppFolders has finished
NoFolders == [recettierRoot |-> 0, ingredients |-> 0]
NoDiscovery == [k |-> 0, recettierRoot |-> 0, ingredients |-> 0]
\* the folders files.list returns for findFolderByName(name, parentId); the
\* query has no parent clause when parentId is not given (parent = 0)
FoldersNamed(name, parent) ==
  {i \in 1..Len(folders) :
     folders[i].name = name /\ (parent = 0 \/ folders[i].parent = parent)}
\* the files files.list returns for findFileByName(INGREDIENTS_REGISTRY_FILE, f)
FilesIn(f) == {i \in 1..Len(remote) : f # 0 /\ parents[i] = f}
\* the file with this id has not been deleted
Exists(f) == f \in 1..Len(remote) /\ parents[f] # 0
\* getIngredientsFolderId() returns; it throws when appFolders is null
HasFolder(c) == appFolders[c].ingredients # 0

\* a service call of the synchronizer starts; `step` is "none", or the
\* statement that threw before the first await of syncFromGoogleDrive, whose
\* catch block has then made the registry r
Enter(c, name, label, step, r) ==
  /\ now < MaxTime
  /\ now' = now + 1
  /\ op' = [op EXCEPT ![c] = name]
  /\ pc' = [pc EXCEPT ![c] = label]
  /\ before' = [before EXCEPT ![c] = db[c]]
  /\ docAtStart' = [docAtStart EXCEPT ![c] = FilesIn(appFolders[c].ingredients) # {}]
  /\ caught' = [caught EXCEPT ![c] = step]
  /\ registry' = [registry EXCEPT ![c] = r]
  /\ focus' = [focus EXCEPT ![c] = NoFocus]
  /\ UNCHANGED <<db, remote, found, last, tabs, waiting>>
  /\ DriveUnchanged

Begin(c, name, label) == Enter(c, name, label, "none", registry[c])

\* the call in flight goes on at `label` with file handle f and registry r
Goto(c, label, f, r) ==
  /\ pc' = [pc EXCEPT ![c] = label]
  /\ found' = [found EXCEPT ![c] = f]
  /\ registry' = [registry EXCEPT ![c] = r]
  /\ UNCHANGED <<isLoading, op, caught, last>>

\* an error thrown at `step` enters the catch block of syncFromGoogleDrive:
\* const defaultRegistry = this.createDefaultRegistry(), then loadFromRegistry
\* is called
Catch(c, step) ==
  /\ pc' = [pc EXCEPT ![c] = "pull_catch"]
  /\ caught' = [caught EXCEPT ![c] = step]
  /\ registry' = [registry EXCEPT ![c] = createDefaultRegistry]
  /\ UNCHANGED <<isLoading, op, found, last>>

\* an initialize() without its finally block: isLoading stays set
ReturnKeepsLoading(c, outcome) ==
  /\ pc' = [pc EXCEPT ![c] = "idle"]
  /\ op' = [op EXCEPT ![c] = "none"]
  /\ UNCHANGED isLoading
  /\ found' = [found EXCEPT ![c] = 0]
  /\ registry' = [registry EXCEPT ![c] = NoRegistry]
  /\ caught' = [caught EXCEPT ![c] = "none"]
  /\ last' = [client |-> c, op |-> op[c], outcome |-> outcome,
              hadDoc |-> docAtStart[c], caught |-> caught[c]]

\* the call in flight returns (outcome "ok") or throws to its caller;
\* initialize() resets isLoading in its finally block
Return(c, outcome) ==
  /\ pc' = [pc EXCEPT ![c] = "idle"]
  /\ op' = [op EXCEPT ![c] = "none"]
  /\ isLoading' = [isLoading EXCEPT ![c] = IF op[c] = "initialize" THEN FALSE ELSE @]
  /\ found' = [found EXCEPT ![c] = 0]
  /\ registry' = [registry EXCEPT ![c] = NoRegistry]
  /\ caught' = [caught EXCEPT ![c] = "none"]
  /\ last' = [client |-> c, op |-> op[c], outcome |-> outcome,
              hadDoc |-> docAtStart[c], caught |-> caught[c]]

Calm == UNCHANGED <<now, before, docAtStart, focus, waiting, tabs>>
Rest == UNCHANGED <<now, before, docAtStart, focus, waiting>> /\ DriveUnchanged
Frame == Rest /\ UNCHANGED tabs

\* a store method called by the synchronizer got the record, changed the
\* object it was given into `data` and has called saveLocalData(data)
Hold(c, name, data) ==
  tabs' = [tabs EXCEPT ![c]["sync"] =
             [NoCall EXCEPT !.phase = "put", !.call = name,
                            !.seen = getLocalData(c), !.data = data]]
Held(c) == tabs[c]["sync"].data
\* that saveLocalData(data) is answered
Drop(c) == tabs' = [tabs EXCEPT ![c]["sync"] = NoCall]
\* the synchronizer has called the store method `name` with the argument
\* `given`; its getLocalData() is not yet answered
Ask(c, name, given) ==
  tabs' = [tabs EXCEPT ![c]["sync"] =
             [NoCall EXCEPT !.phase = "load", !.call = name, !.given = given]]

\* initialize(): not loading, so set isLoading and call localDB.initialize()
InitializeStart(c) ==
  /\ pc[c] = "idle"
  /\ ~isLoading[c]
  /\ isLoading' = [isLoading EXCEPT ![c] = TRUE]
  /\ Begin(c, "initialize", "init_open")

\* await localDB.initialize(): the indexedDB.open request is answered; then
\* googleDriveService.initialize() is called
InitializeLocalDB(c) ==
  /\ pc[c] = "init_open"
  /\ \E ok \in BOOLEAN :
       IF ok THEN Goto(c, "init_auth", found[c], registry[c]) ELSE Return(c, "error")
  /\ UNCHANGED <<db, remote>>
  /\ Frame

\* GoogleDriveService.initialize(): await googleAuthService.initialize(); it
\* throws when that rejects or the user is not signed in, else
\* discoverAppFolders() asks for the root folder
InitializeGoogleDrive(c) ==
  /\ pc[c] = "init_auth"
  /\ \E ok \in BOOLEAN :
       IF ok
       THEN /\ Goto(c, "init_find", found[c], registry[c])
            /\ discovery' = [discovery EXCEPT ![c] = [NoDiscovery EXCEPT !.k = 1]]
       ELSE Return(c, "error") /\ UNCHANGED discovery
  /\ UNCHANGED <<db, remote, folders, parents, appFolders>>
  /\ Calm

\* discoverAppFolders has folder number k (id): it asks for the next one, or,
\* after the last, sets this.appFolders and resolves; initialize() goes on
\* with localDB.getLocalData()
Discovered(c, id) ==
  LET d == discovery[c]
  IN IF d.k < Len(FolderNames)
     THEN /\ discovery' = [discovery EXCEPT ![c] =
                             [k |-> d.k + 1,
                              recettierRoot |-> IF d.k = 1 THEN id ELSE d.recettierRoot,
                              ingredients |-> IF d.k = 2 THEN id ELSE d.ingredients]]
          /\ Goto(c, "init_find", found[c], registry[c])
          /\ UNCHANGED appFolders
     ELSE /\ discovery' = [discovery EXCEPT ![c] = NoDiscovery]
          /\ appFolders' = [appFolders EXCEPT ![c] =
                              [recettierRoot |-> d.recettierRoot,
                               ingredients |-> d.ingredients]]
          /\ Goto(c, "init_check", found[c], registry[c])

\* a request of discoverAppFolders fails: it rethrows, and so does initialize()
DiscoveryThrows(c) ==
  /\ Return(c, "error")
  /\ discovery' = [discovery EXCEPT ![c] = NoDiscovery]
  /\ UNCHANGED appFolders

\* await this.findFolderByName(name, recettierRoot.id): files[0], or null
\* and then createFolder is called
FindFolderByName(c) ==
  /\ pc[c] = "init_find"
  /\ \E ok \in BOOLEAN :
       IF ~ok THEN DiscoveryThrows(c)
       ELSE LET d == discovery[c]
                files == FoldersNamed(FolderNames[d.k], d.recettierRoot)
            IN IF files # {}
               THEN \E f \in files : Discovered(c, f)
               ELSE /\ Goto(c, "init_create", found[c], registry[c])
                    /\ UNCHANGED <<discovery, appFolders>>
  /\ UNCHANGED <<db, remote, folders, parents>>
  /\ Calm

\* await this.createFolder(name, recettierRoot.id)
CreateFolder(c) ==
  /\ pc[c] = "init_create"
  /\ \E ok \in BOOLEAN :
       IF ok
       THEN /\ folders' = Append(folders, [name |-> FolderNames[discovery[c].k],
                                           parent |-> discovery[c].recettierRoot])
            /\ Discovered(c, Len(folders) + 1)
       ELSE DiscoveryThrows(c) /\ UNCHANGED folders
  /\ UNCHANGED <<db, remote, parents>>
  /\ Calm

\* an initialize() that pulls whatever the stored sync time
InitializeCheckAlwaysPulls(c) ==
  /\ pc[c] = "init_check"
  /\ \E ok \in BOOLEAN :
       IF ~ok THEN Return(c, "error")
       ELSE Goto(c, "pull_find", found[c], registry[c])
  /\ UNCHANGED <<db, remote>>
  /\ Frame

\* const localData = await localDB.getLocalData(); if (!localData.lastSyncTime)
InitializeCheck(c) ==
  /\ pc[c] = "init_check"
  /\ \E ok \in BOOLEAN :
       IF ~ok THEN Return(c, "error")
       ELSE IF getLocalData(c).lastSyncTime = NoTime
            THEN Goto(c, "pull_find", found[c], registry[c])
            ELSE Return(c, "ok")
  /\ UNCHANGED <<db, remote>>
  /\ Frame

\* initialize() called while isLoading is set: the caller enters the wait loop
InitializeWait(c) ==
  /\ isLoading[c]
  /\ waiting[c] < MaxWaiting
  /\ waiting' = [waiting EXCEPT ![c] = @ + 1]
  /\ UNCHANGED <<now, db, remote, isLoading, op, pc, found, registry, before,
                 docAtStart, caught, last, focus, tabs>>
  /\ DriveUnchanged

\* a caller in the wait loop wakes up, finds isLoading reset and returns
WaitReturn(c) ==
  /\ waiting[c] > 0
  /\ ~isLoading[c]
  /\ waiting' = [waiting EXCEPT ![c] = @ - 1]
  /\ Called(c, "initialize", "ok")
  /\ UNCHANGED <<now, db, remote, isLoading, op, pc, found, registry, before,
                 docAtStart, caught, focus, tabs>>
  /\ DriveUnchanged

\* syncFromGoogleDrive() called directly: getIngredientsFolderId() returns
\* and findFileByName is called, or it throws and the catch block makes the
\* default registry and calls loadFromRegistry
PullStart(c) ==
  /\ pc[c] = "idle"
  /\ IF HasFolder(c)
     THEN Begin(c, "pull", "pull_find")
     ELSE Enter(c, "pull", "pull_catch", "folder", createDefaultRegistry)
  /\ UNCHANGED isLoading

\* await findFileByName(INGREDIENTS_REGISTRY_FILE, ingredientsFolderId):
\* files[0], or null and then const defaultRegistry =
\* this.createDefaultRegistry()
PullFind(c) ==
  /\ pc[c] = "pull_find"
  /\ \E ok \in BOOLEAN :
       IF ~ok THEN Catch(c, "find")
       ELSE LET files == FilesIn(appFolders[c].ingredients)
            IN IF files # {}
               THEN \E f \in files : Goto(c, "pull_read", f, registry[c])
               ELSE Goto(c, "pull_default", 0, createDefaultRegistry)
  /\ UNCHANGED <<db, remote>>
  /\ Frame

\* await readFileContent(registryFile.id); JSON.parse(content); the request
\* for a file deleted in the meantime fails
PullRead(c) ==
  /\ pc[c] = "pull_read"
  /\ \E ok \in BOOLEAN :
       IF ok /\ Exists(found[c])
       THEN Goto(c, "pull_load", found[c], remote[found[c]])
       ELSE Catch(c, "read")
  /\ UNCHANGED <<db, remote>>
  /\ Frame

\* await localDB.loadFromRegistry(registry), up to its saveLocalData(data)
PullLoad(c) ==
  /\ pc[c] = "pull_load"
  /\ \E ok \in BOOLEAN :
       IF ok
       THEN /\ Hold(c, "loadFromRegistry", loadFromRegistry(getLocalData(c), registry[c]))
            /\ Goto(c, "pull_load_put", found[c], registry[c])
       ELSE Catch(c, "load") /\ UNCHANGED tabs
  /\ UNCHANGED <<db, remote>>
  /\ Rest

\* the saveLocalData(data) of that loadFromRegistry is answered
PullLoadPut(c) ==
  /\ pc[c] = "pull_load_put"
  /\ \E ok \in BOOLEAN :
       IF ok
       THEN Local(c, Held(c)) /\ Return(c, "ok")
       ELSE Catch(c, "load") /\ UNCHANGED db
  /\ Drop(c)
  /\ UNCHANGED remote
  /\ Rest

\* not found: await localDB.loadFromRegistry(defaultRegistry), up to its
\* saveLocalData(data)
PullDefault(c) ==
  /\ pc[c] = "pull_default"
  /\ \E ok \in BOOLEAN :
       IF ok
       THEN /\ Hold(c, "loadFromRegistry",
                    loadFromRegistry(getLocalData(c), registry[c]))
            /\ Goto(c, "pull_default_put", found[c], registry[c])
       ELSE Catch(c, "load") /\ UNCHANGED tabs
  /\ UNCHANGED <<db, remote>>
  /\ Rest

\* the saveLocalData(data) of that loadFromRegistry is answered; then
\* saveRegistryToGoogleDrive(defaultRegistry)
PullDefaultPut(c) ==
  /\ pc[c] = "pull_default_put"
  /\ \E ok \in BOOLEAN :
       IF ok
       THEN Local(c, Held(c)) /\ Goto(c, "save_find", found[c], registry[c])
       ELSE Catch(c, "load") /\ UNCHANGED db
  /\ Drop(c)
  /\ UNCHANGED remote
  /\ Rest

\* catch (error): await localDB.loadFromRegistry(defaultRegistry), up to its
\* saveLocalData(data)
PullCatch(c) ==
  /\ pc[c] = "pull_catch"
  /\ \E ok \in BOOLEAN :
       IF ok
       THEN /\ Hold(c, "loadFromRegistry",
                    loadFromRegistry(getLocalData(c), registry[c]))
            /\ Goto(c, "pull_catch_put", found[c], registry[c])
       ELSE Return(c, "error") /\ UNCHANGED tabs
  /\ UNCHANGED <<db, remote>>
  /\ Rest

\* the saveLocalData(data) of the loadFromRegistry in the catch block is answered
PullCatchPut(c) ==
  /\ pc[c] = "pull_catch_put"
  /\ \E ok \in BOOLEAN :
       IF ok
       THEN Local(c, Held(c)) /\ Return(c, "ok")
       ELSE Return(c, "error") /\ UNCHANGED db
  /\ Drop(c)
  /\ UNCHANGED remote
  /\ Rest

\* saveToGoogleDrive() called
PushStart(c) ==
  /\ pc[c] = "idle"
  /\ Begin(c, "push", "push_build")
  /\ UNCHANGED isLoading

\* const localData = await localDB.getLocalData(); build the registry from
\* it and call saveRegistryToGoogleDrive(registry), whose
\* getIngredientsFolderId() throws when appFolders is null
PushBuild(c) ==
  /\ pc[c] = "push_build"
  /\ \E ok \in BOOLEAN :
       IF ok /\ HasFolder(c)
       THEN LET localData == getLocalData(c)
            IN Goto(c, "save_find", found[c],
                    [ingredients |-> localData.ingredients,
                     categories |-> localData.categories,
                     lastUpdated |-> DateOf(now),
                     totalIngredients |-> Len(localData.ingredients),
                     totalCategories |-> Len(localData.categories)])
       ELSE Return(c, "error")
  /\ UNCHANGED <<db, remote>>
  /\ Frame

\* saveRegistryToGoogleDrive throws: to the catch of pull, or out of push
SaveThrows(c) == IF op[c] = "push" THEN Return(c, "error") ELSE Catch(c, "save")

\* saveRegistryToGoogleDrive: await findFileByName(INGREDIENTS_REGISTRY_FILE,
\* ingredientsFolderId)
SaveFind(c) ==
  /\ pc[c] = "save_find"
  /\ \E ok \in BOOLEAN :
       IF ok
       THEN LET files == FilesIn(appFolders[c].ingredients)
            IN \E f \in (IF files # {} THEN files ELSE {0}) :
                 Goto(c, "save_write", f, registry[c])
       ELSE SaveThrows(c)
  /\ UNCHANGED <<db, remote>>
  /\ Frame

\* updateFileContent(existingFile.id, content) or createFile(name, content,
\* ingredientsFolderId), up to the answer of await fetch(...): the upload is
\* written, or the request fails or its response is not ok (the file was
\* deleted in the meantime) and the call throws
SaveWrite(c) ==
  /\ pc[c] = "save_write"
  /\ \E ok \in BOOLEAN :
       IF ok /\ (found[c] > 0 => Exists(found[c]))
       THEN /\ remote' = IF found[c] > 0
                         THEN [remote EXCEPT ![found[c]] = JSONRegistry(registry[c])]
                         ELSE Append(remote, JSONRegistry(registry[c]))
            /\ parents' = IF found[c] > 0 THEN parents
                          ELSE Append(parents, appFolders[c].ingredients)
            /\ Goto(c, "save_json", found[c], registry[c])
       ELSE SaveThrows(c) /\ UNCHANGED <<remote, parents>>
  /\ UNCHANGED <<db, folders, appFolders, discovery>>
  /\ Calm

\* const result = await response.json() of createFile and updateFileContent:
\* the file is written already; when the body cannot be read the call throws
\* all the same ('Failed to create file' / 'Failed to update file')
SaveJson(c) ==
  /\ pc[c] = "save_json"
  /\ \E ok \in BOOLEAN :
       IF ok
       THEN IF op[c] = "push"
            THEN Goto(c, "push_clear", found[c], registry[c])
            ELSE Return(c, "ok")
       ELSE SaveThrows(c)
  /\ UNCHANGED <<db, remote>>
  /\ Frame

\* GoogleDriveService.deleteFile(fileId): await files.delete({fileId}); it
\* throws when the request fails or the file is gone already
DeleteFile(c, f) ==
  /\ \E ok \in BOOLEAN :
       IF ok /\ Exists(f)
       THEN parents' = [parents EXCEPT ![f] = 0] /\ Called(c, "deleteFile", "ok")
       ELSE UNCHANGED parents /\ Called(c, "deleteFile", "error")
  /\ UNCHANGED <<now, db, remote, isLoading, op, pc, found, registry, before,
                 docAtStart, caught, focus, tabs, waiting, folders, appFolders,
                 discovery>>

\* await localDB.clearPendingChanges(), up to its saveLocalData(data)
PushClear(c) ==
  /\ pc[c] = "push_clear"
  /\ \E ok \in BOOLEAN :
       IF ok
       THEN /\ Hold(c, "clearPendingChanges", clearPendingChanges(getLocalData(c)))
            /\ Goto(c, "push_clear_put", found[c], registry[c])
       ELSE Return(c, "error") /\ UNCHANGED tabs
  /\ UNCHANGED <<db, remote>>
  /\ Rest

\* the saveLocalData(data) of clearPendingChanges is answered; then
\* localDB.updateLastSyncTime(new Date()) is called
PushClearPut(c) ==
  /\ pc[c] = "push_clear_put"
  /\ \E ok \in BOOLEAN :
       IF ok
       THEN /\ Local(c, Held(c))
            /\ Ask(c, "updateLastSyncTime", [id |-> "none", syncTime |-> now])
            /\ Goto(c, "push_time", found[c], registry[c])
       ELSE Return(c, "error") /\ Drop(c) /\ UNCHANGED db
  /\ UNCHANGED remote
  /\ Rest

\* the getLocalData() of that updateLastSyncTime(syncTime) is answered, up to
\* its saveLocalData(data)
PushTime(c) ==
  /\ pc[c] = "push_time"
  /\ \E ok \in BOOLEAN :
       IF ok
       THEN /\ Hold(c, "updateLastSyncTime",
                    updateLastSyncTime(getLocalData(c),
                                       tabs[c]["sync"].given.syncTime))
            /\ Goto(c, "push_time_put", found[c], registry[c])
       ELSE Return(c, "error") /\ Drop(c)
  /\ UNCHANGED <<db, remote>>
  /\ Rest

\* the saveLocalData(data) of updateLastSyncTime is answered
PushTimePut(c) ==
  /\ pc[c] = "push_time_put"
  /\ \E ok \in BOOLEAN :
       IF ok
       THEN Local(c, Held(c)) /\ Return(c, "ok")
       ELSE Return(c, "error") /\ UNCHANGED db
  /\ Drop(c)
  /\ UNCHANGED remote
  /\ Rest

\* ---------------------------------------------------------- specification
\* the folder structure a discoverAppFolders leaves on an empty Drive, and
\* the appFolders it then sets
FolderTree ==
  [k \in 1..Len(FolderNames) |->
     [name |-> FolderNames[k], parent |-> IF k = 1 THEN 0 ELSE 1]]
TreeFolders == [recettierRoot |-> 1, ingredients |-> 2]

\* nothing stored and no service call in flight at time `time`, on a Drive with
\* the folders fs and no file, the appFolders of each device being af
Constructed(time, fs, af) ==
  /\ now = time
  /\ db = [c \in Clients |-> NothingStored]
  /\ remote = <<>>
  /\ folders = fs
  /\ parents = <<>>
  /\ appFolders = [c \in Clients |-> af]
  /\ discovery = [c \in Clients |-> NoDiscovery]
  /\ isLoading = [c \in Clients |-> FALSE]
  /\ op = [c \in Clients |-> "none"]
  /\ pc = [c \in Clients |-> "idle"]
  /\ found = [c \in Clients |-> 0]
  /\ registry = [c \in Clients |-> NoRegistry]
  /\ before = [c \in Clients |-> NothingStored]
  /\ docAtStart = [c \in Clients |-> FALSE]
  /\ caught = [c \in Clients |-> "none"]
  /\ last = [client |-> "none", op |-> "none", outcome |-> "ok", hadDoc |-> FALSE,
             caught |-> "none"]
  /\ focus = [c \in Clients |-> NoFocus]
  /\ tabs = [c \in Clients |-> [t \in Callers |-> NoCall]]
  /\ waiting = [c \in Clients |-> 0]

\* Each device has discovered the application folders of the Drive (an
\* initialize() that got as far as its getLocalData() leaves appFolders set);
\* nothing is stored yet
Init == Constructed(0, FolderTree, TreeFolders)

\* the services as constructed, on an empty Drive: appFolders is null
InitEmpty == Constructed(0, <<>>, NoFolders)

\* the user clears the site data of a device: nothing is stored any more
ClearSiteData(c) ==
  /\ pc[c] = "idle"
  /\ db[c].exists
  /\ db' = [db EXCEPT ![c] = NothingStored]
  /\ before' = [before EXCEPT ![c] = NothingStored]
  /\ focus' = [focus EXCEPT ![c] = NoFocus]
  /\ last' = [client |-> c, op |-> "clearSiteData", outcome |-> "ok", hadDoc |-> FALSE,
              caught |-> "none"]
  /\ UNCHANGED <<now, remote, isLoading, op, pc, found, registry, docAtStart, caught,
                 tabs, waiting>>
  /\ DriveUnchanged

Crud(c) ==
  \/ \E id \in CatIds, desc \in Descs : AddCategory(c, id, "n1", desc, UNDEF)
  \/ \E id \in CatIds, name \in Names \cup {ABSENT}, desc \in Descs \cup {ABSENT} :
       UpdateCategory(c, id, name, desc, ABSENT, OptionalKeys)
  \/ \E id \in CatIds : DeleteCategory(c, id)
  \/ \E id \in IngIds, cat \in CatIds : AddIngredient(c, id, "n1", cat)
  \/ \E id \in IngIds, name \in Names \cup {ABSENT}, cat \in CatIds \cup {ABSENT} :
       UpdateIngredient(c, id, name, cat)
  \/ \E id \in IngIds : DeleteIngredient(c, id)

\* the steps of syncFromGoogleDrive and saveToGoogleDrive
SyncStep(c) ==
  \/ PullFind(c) \/ PullRead(c) \/ PullLoad(c) \/ PullLoadPut(c)
  \/ PullDefault(c) \/ PullDefaultPut(c) \/ PullCatch(c) \/ PullCatchPut(c)
  \/ PushBuild(c) \/ SaveFind(c) \/ SaveWrite(c) \/ SaveJson(c)
  \/ PushClear(c) \/ PushClearPut(c) \/ PushTime(c) \/ PushTimePut(c)

\* the requests of the CRUD calls in flight are answered
CategoryStep(c) == \E t \in Tabs : StoreGet(c, t) \/ StorePut(c, t)
StoreStep(c) == \E t \in Tabs : FindCategory(c, t) \/ StoreGet(c, t) \/ StorePut(c, t)

\* the steps of initialize() before its pull, and those of the sync calls; on
\* a Drive that has the folders nothing is created
Step(c) ==
  \/ InitializeLocalDB(c) \/ InitializeGoogleDrive(c) \/ FindFolderByName(c)
  \/ InitializeCheck(c)
  \/ SyncStep(c)

\* Sequential use: one service call in flight at a time.  Client A edits and
\* syncs.  Client B is a second device with an empty store: it pulls once
\* after a successful push of A, and its site data is cleared before A goes on.
Fresh == ~db[Reader].exists
AfterPush == last.client = Editor /\ last.op = "push" /\ last.outcome = "ok"

Next ==
  \/ Idle /\ Fresh /\ Crud(Editor)
  \/ Idle /\ Fresh /\ (InitializeStart(Editor) \/ PullStart(Editor) \/ PushStart(Editor))
  \/ Idle /\ Fresh /\ AfterPush /\ PullStart(Reader)
  \/ Idle /\ ClearSiteData(Reader)
  \/ StoreStep(Editor)
  \/ \E c \in Clients : Step(c)

Spec == Init /\ [][Next]_vars

\* ------------------------------------------- two devices, one remote document
\* Both clients edit one category and sync; their calls alternate in any
\* order, one call in flight at a time.
CrudTwo(c) ==
  \/ \E name \in Names : AddCategory(c, "c1", name, UNDEF, UNDEF)
  \/ \E name \in Names : UpdateCategory(c, "c1", name, ABSENT, ABSENT, OptionalKeys)
  \/ DeleteCategory(c, "c1")

NextTwo ==
  \/ \E c \in Clients : Idle /\ CrudTwo(c)
  \/ \E c \in Clients : Idle /\ (PullStart(c) \/ PushStart(c))
  \/ \E c \in Clients : CategoryStep(c)
  \/ \E c \in Clients : SyncStep(c)

SpecTwo == Init /\ [][NextTwo]_vars

\* ------------------------------------- interleaved cycles on one local record
\* Every method of LocalStorageService that writes is a cycle: await
\* getLocalData(), change the loaded object, await saveLocalData().  Two tabs
\* of the editor's browser (or a user action and a background sync) run such
\* cycles on the one stored record; nothing orders a cycle after another.
SyncCalls == {"clearPendingChanges", "updateLastSyncTime", "loadFromRegistry"}

\* clearPendingChanges(), updateLastSyncTime(new Date()) or
\* loadFromRegistry(createDefaultRegistry()) called on its own: the argument
\* is made when the method is called, before its getLocalData() is answered
StoreCall(c, call) ==
  /\ HasFree(c)
  /\ Given(c, FreeTab(c), "load",
           Call(call, "none", "none", "none",
                CASE call = "clearPendingChanges" -> [id |-> "none"]
                  [] call = "updateLastSyncTime" -> [id |-> "none", syncTime |-> now]
                  [] call = "loadFromRegistry" ->
                       [id |-> "none", registry |-> createDefaultRegistry]))

\* addPendingChange called on its own, up to its saveLocalData(data)
AddPendingChange(c, change) ==
  /\ HasFree(c)
  /\ \E ok \in BOOLEAN :
       IF ~ok THEN Failed(c, "addPendingChange")
       ELSE Loaded(c, FreeTab(c),
                   Call("addPendingChange", "none", change.type, change.data.id,
                        change.data),
                   addPendingChange(getLocalData(c), change))

NextRace ==
  \/ \E id \in CatIds : AddCategory(Editor, id, "n1", UNDEF, UNDEF)
  \/ \E id \in CatIds : DeleteCategory(Editor, id)
  \/ \E call \in SyncCalls : StoreCall(Editor, call)
  \/ CategoryStep(Editor)

SpecRace == Init /\ [][NextRace]_vars

\* --------------------------------------- the local store called on its own
\* The public methods of LocalStorageService that write the record, each
\* called to completion on the editor's store.
GivenChanges ==
  {Change("category", o, [id |-> id, name |-> "n1", description |-> UNDEF,
                          color |-> UNDEF, keys |-> OptionalKeys]) :
     o \in {"create", "update", "delete"}, id \in CatIds}

NextStore ==
  \/ Idle /\ \E id \in CatIds : AddCategory(Editor, id, "n1", UNDEF, UNDEF)
  \/ Idle /\ \E id \in CatIds : DeleteCategory(Editor, id)
  \/ Idle /\ \E call \in SyncCalls : StoreCall(Editor, call)
  \/ Idle /\ \E change \in GivenChanges : AddPendingChange(Editor, change)
  \/ CategoryStep(Editor)

SpecStore == Init /\ [][NextStore]_vars

\* ------------------------------------------- a push racing local edits
\* saveToGoogleDrive awaits seven times; between two awaits the requests of
\* a CRUD call of the user interface are answered on the same store.
Quiet(c) == \A t \in Tabs : tabs[c][t].phase = "idle"

PushStep(c) ==
  \/ PushBuild(c) \/ SaveFind(c) \/ SaveWrite(c) \/ SaveJson(c)
  \/ PushClear(c) \/ PushClearPut(c) \/ PushTime(c) \/ PushTimePut(c)

NextPush ==
  \/ Quiet(Editor) /\ \E id \in CatIds : AddCategory(Editor, id, "n1", UNDEF, UNDEF)
  \/ Quiet(Editor) /\ \E id \in CatIds : DeleteCategory(Editor, id)
  \/ \E t \in Tabs : StorePut(Editor, t)
  \/ PushStart(Editor)
  \/ PushStep(Editor)

SpecPush == Init /\ [][NextPush]_vars

\* ------------------------------------- one client that never deletes
\* The editor adds and renames categories, gives them a description and a
\* color in either order, initializes, pulls and pushes, one call at a time;
\* no delete is ever issued.
NextOne ==
  \/ Idle /\ \E id \in CatIds, name \in Names : AddCategory(Editor, id, name, UNDEF, UNDEF)
  \/ Idle /\ \E id \in CatIds, name \in Names :
               UpdateCategory(Editor, id, name, ABSENT, ABSENT, OptionalKeys)
  \/ Idle /\ \E id \in CatIds, order \in KeyOrders :
               UpdateCategory(Editor, id, ABSENT, "d1", "red", order)
  \/ Idle /\ (InitializeStart(Editor) \/ PullStart(Editor) \/ PushStart(Editor))
  \/ CategoryStep(Editor)
  \/ Step(Editor)

SpecOne == Init /\ [][NextOne]_vars

\* ------------------------------------- two devices syncing at the same time
\* Both clients push and pull; the steps of their calls interleave freely.
\* The clock leaves room for both calls and the return of one of them.
InitBoth == Constructed(MaxTime - 3, FolderTree, TreeFolders)

NextBoth ==
  \/ \E c \in Clients : PullStart(c) \/ PushStart(c)
  \/ \E c \in Clients : SyncStep(c)

SpecBoth == InitBoth /\ [][NextBoth]_vars

\* --------------------------------------------- initialize() called again
\* Several components call initialize() of the one service object, started
\* on a Drive that has no folder yet.  Every await of the call in flight
\* settles, and a caller in the wait loop wakes up every 100 ms.  The user
\* may clear the site data, and a registry file may be deleted.
InitStep(c) ==
  \/ InitializeLocalDB(c) \/ InitializeGoogleDrive(c)
  \/ FindFolderByName(c) \/ CreateFolder(c) \/ InitializeCheck(c)
  \/ PullFind(c) \/ PullRead(c) \/ PullLoad(c) \/ PullLoadPut(c)
  \/ PullDefault(c) \/ PullDefaultPut(c) \/ PullCatch(c) \/ PullCatchPut(c)
  \/ SaveFind(c) \/ SaveWrite(c) \/ SaveJson(c)

NextInit ==
  \/ InitializeStart(Editor)
  \/ InitializeWait(Editor)
  \/ WaitReturn(Editor)
  \/ InitStep(Editor)
  \/ ClearSiteData(Editor)
  \/ \E f \in 1..Len(remote) : DeleteFile(Editor, f)

SpecInit ==
  /\ InitEmpty /\ [][NextInit]_vars
  /\ WF_vars(InitStep(Editor))
  /\ WF_vars(WaitReturn(Editor))

\* ------------------------------------- two devices on an empty Drive
\* Both devices are started on a Drive that has no folder yet; the requests
\* of their initialize() calls interleave, so each may miss the folder the
\* other is about to create, and either may delete a file of the Drive.  The
\* clock leaves room for two calls.
InitDrive == Constructed(MaxTime - 2, <<>>, NoFolders)

NextDrive ==
  \/ \E c \in Clients : InitializeStart(c)
  \/ \E c \in Clients : InitStep(c)
  \/ \E c \in Clients, f \in 1..Len(remote) : DeleteFile(c, f)

SpecDrive == InitDrive /\ [][NextDrive]_vars

\* ----------------------------------------- the change-set calculator alone
\* Stored records the calculator is applied to.  The shapes are those the
\* service calls leave behind: addCategory creates both optional keys,
\* description first; a pull drops the keys whose value was undefined; an
\* update appends the keys the entity lacked, so that color can come before
\* description (add with a color and no description, push, pull, update the
\* description).
CatShapes(id, names) ==
  {[id |-> id, name |-> n, description |-> d, color |-> k, keys |-> ks] :
     n \in names, d \in Descs \cup {ABSENT}, k \in Colors \cup {ABSENT},
     ks \in {<<>>, <<"description">>, <<"color">>,
             <<"description", "color">>, <<"color", "description">>}}
WellFormed(cat) ==
  \A k \in {"description", "color"} :
    (Opt(cat, k) # ABSENT) <=> (\E i \in 1..Len(cat.keys) : cat.keys[i] = k)
\* the empty map or a map holding one of the entities
UpToOne(entities) == {<<>>} \cup {<<e>> : e \in entities}
CatMaps ==
  {IF first THEN a \o b ELSE b \o a :
     a \in UpToOne({cat \in CatShapes("c1", {"n1"}) : WellFormed(cat)}),
     b \in UpToOne({cat \in CatShapes("c2", Names) :
                      cat.keys = OptionalKeys /\ cat.description = UNDEF
                      /\ cat.color = UNDEF}),
     first \in BOOLEAN}
IngMaps ==
  UpToOne({[id |-> "i1", name |-> n,
            category |-> [id |-> "c1", name |-> "n1", description |-> UNDEF,
                          color |-> UNDEF, keys |-> OptionalKeys],
            categoryId |-> ABSENT, updatedAt |-> DateOf(0)] : n \in Names})

\* a record stored at time 0 by a call that recalculated its pending changes;
\* the clock leaves room for one more call
InitDiff ==
  /\ now = MaxTime - 1
  /\ \E cur \in CatMaps, base \in CatMaps, ings \in IngMaps, baseIngs \in IngMaps :
       LET data == [NothingStored EXCEPT !.exists = TRUE,
                                         !.ingredients = ings,
                                         !.categories = cur,
                                         !.baselineIngredients = baseIngs,
                                         !.baselineCategories = base,
                                         !.lastLocalUpdate = 0,
                                         !.lastSyncTime = 0]
       IN db = [c \in Clients |->
                  IF c = Editor
                  THEN [data EXCEPT !.pendingChanges = Stamp(AllChanges(data), 0)]
                  ELSE NothingStored]
  /\ remote = <<>>
  /\ folders = FolderTree
  /\ parents = <<>>
  /\ appFolders = [c \in Clients |-> TreeFolders]
  /\ discovery = [c \in Clients |-> NoDiscovery]
  /\ isLoading = [c \in Clients |-> FALSE]
  /\ op = [c \in Clients |-> "none"]
  /\ pc = [c \in Clients |-> "idle"]
  /\ found = [c \in Clients |-> 0]
  /\ registry = [c \in Clients |-> NoRegistry]
  /\ before = [c \in Clients |-> NothingStored]
  /\ docAtStart = [c \in Clients |-> FALSE]
  /\ caught = [c \in Clients |-> "none"]
  /\ last = [client |-> "none", op |-> "none", outcome |-> "ok", hadDoc |-> FALSE,
             caught |-> "none"]
  /\ focus = [c \in Clients |-> NoFocus]
  /\ tabs = [c \in Clients |-> [t \in Callers |-> NoCall]]
  /\ waiting = [c \in Clients |-> 0]

\* updateCategory({id}) gives no property to change: localDB.updateCategory
\* stores the value it found and calls recalculatePendingChanges(data) again,
\* the maps being what they were
NextDiff ==
  \/ Idle /\ \E id \in CatIds :
               UpdateCategory(Editor, id, ABSENT, ABSENT, ABSENT, OptionalKeys)
  \/ CategoryStep(Editor)

SpecDiff == InitDiff /\ [][NextDiff]_vars

\* ------------------------------------------------------------- properties
Kinds == {"ingredient", "category"}
CurrentOf(d, type) == IF type = "ingredient" THEN d.ingredients ELSE d.categories
BaselineOf(d, type) ==
  IF type = "ingredient" THEN d.baselineIngredients ELSE d.baselineCategories
\* positions of the pending changes of one entity
EntriesFor(d, type, id) ==
  {i \in 1..Len(d.pendingChanges) :
     d.pendingChanges[i].type = type /\ d.pendingChanges[i].data.id = id}
Emptied(d) ==
  /\ d.ingredients = <<>> /\ d.categories = <<>>
  /\ d.baselineIngredients = <<>> /\ d.baselineCategories = <<>>
  /\ d.pendingChanges = <<>>
SameState(d, e) ==
  /\ d.ingredients = e.ingredients /\ d.categories = e.categories
  /\ d.baselineIngredients = e.baselineIngredients
  /\ d.baselineCategories = e.baselineCategories
  /\ d.pendingChanges = e.pendingChanges
\* the call `name` of client c has just returned and nothing has started since
LastWas(c, name) == Idle /\ last.client = c /\ last.op = name
CrudNames == {"addCategory", "updateCategory", "deleteCategory",
              "addIngredient", "updateIngredient", "deleteIngredient"}
\* a pending list compared by (kind, operation, entity id, snapshot)
Content(changes) ==
  [k \in 1..Len(changes) |->
     Change(changes[k].type, changes[k].operation, changes[k].data)]

\* C1 (diff invariant I1): in every stored record, pendingChanges, compared by
\* (kind, operation, entity id, snapshot), equals the change set recomputed
\* fresh from the stored current and baseline maps.
C1_DiffInvariant ==
  \A c \in Clients :
    db[c].exists =>
      Content(db[c].pendingChanges)
        = Content(recalculatePendingChanges(db[c]).pendingChanges)

\* C1 witness: after a sync, CRUD calls left a delete and another change pending.
C1_Witness ==
  /\ last.op \in CrudNames
  /\ db[Editor].lastSyncTime # NoTime
  /\ \E i, j \in 1..Len(db[Editor].pendingChanges) :
       /\ db[Editor].pendingChanges[i].operation = "delete"
       /\ db[Editor].pendingChanges[j].operation \in {"create", "update"}

\* C2 (push failure leaves no partial commit): whenever push ends with an
\* error, current, baseline and pendingChanges are what they were when the
\* push started.
C2_PushFailureUntouched ==
  \A c \in Clients :
    (LastWas(c, "push") /\ last.outcome = "error") => SameState(db[c], before[c])

\* C3 (scenario E): when find or read/parse fails during a pull that started
\* with unsynced pending changes, the error reaches the caller and current and
\* pendingChanges are unchanged.
C3_PullErrorPropagates ==
  \A c \in Clients :
    (LastWas(c, "pull") /\ last.caught \in {"find", "read"}
       /\ before[c].pendingChanges # <<>>)
    => /\ last.outcome = "error"
       /\ db[c].ingredients = before[c].ingredients
       /\ db[c].categories = before[c].categories
       /\ db[c].pendingChanges = before[c].pendingChanges

\* C4 as stated (pull error fallback): any error raised inside pull is caught;
\* pull completes without raising and leaves current = baseline = empty maps
\* and pendingChanges = [].
C4_AnyErrorCaught ==
  \A c \in Clients :
    (LastWas(c, "pull") /\ last.caught # "none")
    => (last.outcome = "ok" /\ Emptied(db[c]))

\* C4 amended: an error raised inside the try block of pull is caught and the
\* empty default is stored: when pull then completes without raising, current
\* = baseline = empty maps, pendingChanges = [] and lastSyncTime is set; pull
\* raises only out of its catch block, when the fallback write itself fails.
C4_CaughtErrorFallsBack ==
  \A c \in Clients :
    LastWas(c, "pull") =>
      /\ (last.caught # "none" /\ last.outcome = "ok")
           => (Emptied(db[c]) /\ db[c].lastSyncTime # NoTime)
      /\ last.outcome = "error" => last.caught # "none"

\* C4 witness: a read error during a pull that started with pending changes
\* was swallowed and the local maps were emptied.
C4_Witness ==
  /\ LastWas(Editor, "pull") /\ last.caught = "read" /\ last.outcome = "ok"
  /\ before[Editor].pendingChanges # <<>>
  /\ Emptied(db[Editor])

\* C5 (push success): when a push has just returned successfully, the remote document
\* holds the serialisation of the whole current maps, baseline equals current,
\* pendingChanges is empty and lastSyncTime is the time of the push.
C5_PushSuccess ==
  \A c \in Clients :
    (LastWas(c, "push") /\ last.outcome = "ok")
    => /\ Len(remote) = 1
       /\ remote[1].ingredients = JSONIngs(db[c].ingredients)
       /\ remote[1].categories = JSONCats(db[c].categories)
       /\ db[c].baselineIngredients = db[c].ingredients
       /\ db[c].baselineCategories = db[c].categories
       /\ db[c].pendingChanges = <<>>
       /\ db[c].lastSyncTime = now

\* C5 witness: a successful push of a store that held an ingredient and had
\* pending changes when the push started.
C5_Witness ==
  /\ LastWas(Editor, "push") /\ last.outcome = "ok"
  /\ db[Editor].ingredients # <<>>
  /\ before[Editor].pendingChanges # <<>>
  /\ before[Editor].lastSyncTime # NoTime

\* C6 (pull when the remote document exists): after a pull that completed,
\* current and baseline equal the entity maps of the remote document,
\* lastSyncTime equals its lastUpdated and pendingChanges is empty.
C6_PullLoadsRemote ==
  \A c \in Clients :
    (LastWas(c, "pull") /\ last.outcome = "ok" /\ last.hadDoc)
    => /\ db[c].ingredients = remote[1].ingredients
       /\ db[c].categories = remote[1].categories
       /\ db[c].baselineIngredients = remote[1].ingredients
       /\ db[c].baselineCategories = remote[1].categories
       /\ db[c].lastSyncTime = remote[1].lastUpdated.t
       /\ db[c].pendingChanges = <<>>

\* C7 (scenario A): initialize() on a client with nothing stored and no remote
\* document ends with current = baseline = empty maps, pendingChanges = [] and
\* an empty default registry document in the remote store.
C7_ScenarioA ==
  \A c \in Clients :
    (LastWas(c, "initialize") /\ last.outcome = "ok"
       /\ ~before[c].exists /\ ~last.hadDoc)
    => /\ Emptied(db[c])
       /\ Len(remote) = 1
       /\ remote[1].ingredients = <<>> /\ remote[1].categories = <<>>

\* C8 (round trip): after client A pushed successfully, a fresh client B that
\* pulls ends with current = baseline = the entity maps A pushed and with no
\* pending changes.
C8_RoundTrip ==
  (LastWas(Reader, "pull") /\ last.outcome = "ok")
  => /\ db[Reader].ingredients = JSONIngs(db[Editor].ingredients)
     /\ db[Reader].categories = JSONCats(db[Editor].categories)
     /\ db[Reader].baselineIngredients = db[Reader].ingredients
     /\ db[Reader].baselineCategories = db[Reader].categories
     /\ db[Reader].pendingChanges = <<>>

\* C9 (net-zero law): an entity whose id is not in baseline, once created and
\* then deleted with only calls on that entity in between and no sync, has no
\* pending change; if pendingChanges was empty before the create it is empty
\* again.
C9_NetZero ==
  \A c \in Clients :
    LET z == focus[c]
    IN (z.fresh /\ z.ops # <<>> /\ z.ops[1] = "create"
          /\ z.ops[Len(z.ops)] = "delete")
       => /\ EntriesFor(db[c], z.type, z.id) = {}
          /\ z.clean => db[c].pendingChanges = <<>>

\* C9 witness: after a sync, an entity was created, updated and deleted.
C9_Witness ==
  /\ focus[Editor].fresh /\ focus[Editor].clean
  /\ focus[Editor].ops = <<"create", "update", "delete">>
  /\ db[Editor].lastSyncTime # NoTime
  /\ last.op \in {"deleteCategory", "deleteIngredient"}

\* C10 (single-delete law): for each id in baseline and absent from current,
\* pendingChanges holds exactly one entry, a delete carrying the baseline value.
C10_SingleDelete ==
  \A c \in Clients : \A type \in Kinds :
    \A id \in MapKeys(BaselineOf(db[c], type)) \ MapKeys(CurrentOf(db[c], type)) :
      LET E == EntriesFor(db[c], type, id)
      IN /\ Cardinality(E) = 1
         /\ \A i \in E :
              /\ db[c].pendingChanges[i].operation = "delete"
              /\ db[c].pendingChanges[i].data = MapGet(BaselineOf(db[c], type), id)

\* C10 witness: a synced entity was updated and then deleted.
C10_Witness ==
  LET z == focus[Editor]
  IN /\ Len(z.ops) >= 2
     /\ z.ops[Len(z.ops) - 1] = "update" /\ z.ops[Len(z.ops)] = "delete"
     /\ MapHas(BaselineOf(db[Editor], z.type), z.id)
     /\ ~MapHas(CurrentOf(db[Editor], z.type), z.id)

\* C11 (change-set rules): for the current and baseline maps of each kind the
\* pending list holds exactly one entry per differing id and none otherwise:
\* a create with the current value for an id only in current, an update with
\* the current value for an id in both with unequal values, a delete with the
\* baseline value for an id only in baseline, nothing for an id in both with
\* equal values.  Two values are equal when they are deeply equal: the same
\* properties with the same values, whatever the order in which the keys
\* were written, an undefined property counting as missing and a Date as its
\* ISO string.
C11_ChangeSetRules ==
  \A type \in Kinds : \A id \in CatIds \cup IngIds :
    LET Defined(x) == IF x = UNDEF THEN ABSENT ELSE x
        EqualCategories(a, b) ==
          /\ a.id = b.id /\ a.name = b.name
          /\ Defined(a.description) = Defined(b.description)
          /\ Defined(a.color) = Defined(b.color)
        DeeplyEqual(a, b) ==
          IF type = "category" THEN EqualCategories(a, b)
          ELSE /\ a.id = b.id /\ a.name = b.name
               /\ EqualCategories(a.category, b.category)
               /\ a.categoryId = b.categoryId
               /\ a.updatedAt.t = b.updatedAt.t
        d == db[Editor]
        cur == CurrentOf(d, type)
        base == BaselineOf(d, type)
        E == EntriesFor(d, type, id)
        One(operation, v) ==
          /\ Cardinality(E) = 1
          /\ \A i \in E : /\ d.pendingChanges[i].operation = operation
                           /\ d.pendingChanges[i].data = v
    IN IF MapHas(cur, id) /\ ~MapHas(base, id) THEN One("create", MapGet(cur, id))
       ELSE IF ~MapHas(cur, id) /\ MapHas(base, id) THEN One("delete", MapGet(base, id))
       ELSE IF ~MapHas(cur, id) THEN E = {}
       ELSE IF DeeplyEqual(MapGet(cur, id), MapGet(base, id)) THEN E = {}
       ELSE One("update", MapGet(cur, id))

\* the saveLocalData of the call `name` of caller t is answered and the call
\* returns
Saves(c, t, name) ==
  /\ tabs[c][t].phase = "put" /\ tabs[c][t].call = name
  /\ tabs'[c][t].phase = "idle"
  /\ last'.outcome = "ok"

\* the maps of the stored record of client c are left as they were
SameMaps(c) ==
  /\ db'[c].ingredients = db[c].ingredients
  /\ db'[c].categories = db[c].categories
  /\ db'[c].baselineIngredients = db[c].baselineIngredients
  /\ db'[c].baselineCategories = db[c].baselineCategories

\* C12 (idempotence of recompute): when the calculator runs again on the same
\* current and baseline maps, with no mutation in between (updateCategory
\* storing the value it found), the pendingChanges list it stores is identical
\* to the one stored before.
C12_IdenticalLists ==
  [][\A c \in Clients, t \in Tabs :
       (Saves(c, t, "updateCategory") /\ SameMaps(c))
       => db'[c].pendingChanges = db[c].pendingChanges]_vars

\* client c has no call in flight and its CRUD call `name` starts in this
\* step: the call has a request pending after it, or it has ended
Starts(c, name) ==
  /\ pc[c] = "idle" /\ pc'[c] = "idle"
  /\ \A t \in Tabs : tabs[c][t].phase = "idle"
  /\ IF tabs'[c] # tabs[c]
     THEN \E t \in Tabs : tabs'[c][t].call = name
     ELSE last'.client = c /\ last'.op = name
\* the call of client c ended in this step with `outcome`: the stored records
\* are what they were and the call has no request left to be answered
Ended(c, outcome) ==
  /\ db' = db
  /\ \A t \in Tabs : tabs'[c][t].phase = "idle"
  /\ last'.client = c /\ last'.outcome = outcome
\* the call of client c threw `error`, or the failure of the IndexedDB
\* request it was waiting for
Raised(c, error) == Ended(c, error) \/ Ended(c, "error")

\* C13 (Domain Service errors abort without any state change): addIngredient
\* with a categoryId missing from current.categories, updateCategory or
\* updateIngredient with an id missing from current, and updateIngredient
\* changing to a categoryId missing from current.categories each raise their
\* not-found error (a call whose read of the record fails raises that
\* failure) and leave the whole stored record unchanged.
C13_ErrorsChangeNothing ==
  [][\A c \in Clients :
       LET data == getLocalData(c)
       IN /\ Starts(c, "addIngredient") =>
               \A cat \in CatIds :
                 ~MapHas(data.categories, cat) =>
                   \A id \in IngIds, name \in Names :
                     AddIngredient(c, id, name, cat)
                     => Raised(c, "Category not found")
          /\ Starts(c, "updateCategory") =>
               \A id \in CatIds :
                 ~MapHas(data.categories, id) =>
                   \A name \in Names \cup {ABSENT}, desc \in Descs \cup {ABSENT} :
                     UpdateCategory(c, id, name, desc, ABSENT, OptionalKeys)
                     => Raised(c, "Category not found")
          /\ Starts(c, "updateIngredient") =>
               \A id \in IngIds :
                 ~MapHas(data.ingredients, id) =>
                   \A name \in Names \cup {ABSENT}, cat \in CatIds \cup {ABSENT} :
                     UpdateIngredient(c, id, name, cat)
                     => Raised(c, "Ingredient not found")
          /\ \A t \in Tabs :
               (/\ tabs[c][t].phase = "find"
                /\ tabs'[c][t] # tabs[c][t]
                /\ ~MapHas(data.categories, tabs[c][t].given.categoryId))
               => Raised(c, "Category not found")]_vars

\* C13 witness: updateIngredient has just failed on a missing category while
\* the record held the ingredient and pending changes.
C13_Witness ==
  /\ LastWas(Editor, "updateIngredient") /\ last.outcome = "Category not found"
  /\ db[Editor].ingredients # <<>>
  /\ db[Editor].pendingChanges # <<>>

\* C14 (referential integrity I2): in every stored record each ingredient of
\* current has a category.id that is a key of current's category map.
C14_ReferentialIntegrity ==
  \A c \in Clients :
    \A i \in 1..Len(db[c].ingredients) :
      MapHas(db[c].categories, db[c].ingredients[i].category.id)

\* C15 (delete is idempotent): deleteCategory or deleteIngredient on an id
\* missing from current succeeds (a call whose read of the record fails raises
\* that failure) and leaves the whole stored record unchanged.
C15_DeleteIdempotent ==
  [][\A c \in Clients :
       LET data == getLocalData(c)
       IN /\ Starts(c, "deleteCategory") =>
               \A id \in CatIds :
                 (~MapHas(data.categories, id) /\ DeleteCategory(c, id))
                 => Ended(c, "ok") \/ Ended(c, "error")
          /\ Starts(c, "deleteIngredient") =>
               \A id \in IngIds :
                 (~MapHas(data.ingredients, id) /\ DeleteIngredient(c, id))
                 => Ended(c, "ok") \/ Ended(c, "error")]_vars

\* C15 witness: deleteCategory has just returned, a category of baseline is
\* gone from current and its delete is pending: deleting it again is the case.
C15_Witness ==
  /\ LastWas(Editor, "deleteCategory") /\ last.outcome = "ok"
  /\ \E id \in CatIds :
       /\ MapHas(db[Editor].baselineCategories, id)
       /\ ~MapHas(db[Editor].categories, id)
       /\ EntriesFor(db[Editor], "category", id) # {}

\* the baseline maps and lastSyncTime of two records agree
SameBaseline(d, e) ==
  /\ d.baselineIngredients = e.baselineIngredients
  /\ d.baselineCategories = e.baselineCategories
  /\ d.lastSyncTime = e.lastSyncTime

\* C16 (baseline frame): no create, update or delete call changes the stored
\* baseline maps or lastSyncTime; the baseline maps change only in the
\* loadFromRegistry of a pull and the clearPendingChanges of a push, and a
\* push that changed them is a successful one.
C16_BaselineFrame ==
  [][\A c \in Clients :
       /\ (\E t \in Tabs : tabs'[c][t] # tabs[c][t]) => SameBaseline(db'[c], db[c])
       /\ (/\ \/ db'[c].baselineIngredients # db[c].baselineIngredients
               \/ db'[c].baselineCategories # db[c].baselineCategories
            /\ ~ClearSiteData(c))
          => pc[c] \in {"pull_load_put", "pull_default_put", "pull_catch_put",
                        "push_clear_put"}
       /\ (op[c] = "push" /\ pc'[c] = "idle" /\ last'.outcome = "error")
          => /\ db'[c].baselineIngredients = before[c].baselineIngredients
             /\ db'[c].baselineCategories = before[c].baselineCategories]_vars

\* C17 (last writer wins, per document): with two clients on one remote
\* document, a successful push leaves the document equal to the pusher's
\* current maps whatever the other client pushed before, and a pull of a
\* client that had pending changes replaces its maps with those of the
\* document the other client wrote.
C17_LastWriterWins ==
  \A c \in Clients :
    /\ (LastWas(c, "push") /\ last.outcome = "ok")
       => /\ Len(remote) = 1
          /\ remote[1].ingredients = JSONIngs(db[c].ingredients)
          /\ remote[1].categories = JSONCats(db[c].categories)
    /\ (LastWas(c, "pull") /\ last.outcome = "ok" /\ last.hadDoc
          /\ before[c].pendingChanges # <<>>
          /\ remote[1].categories # JSONCats(before[c].baselineCategories)
          /\ \E o \in Clients \ {c} :
               /\ db[o].lastSyncTime # NoTime
               /\ JSONCats(db[o].baselineCategories) = remote[1].categories)
       => /\ db[c].ingredients = remote[1].ingredients
          /\ db[c].categories = remote[1].categories
          /\ db[c].pendingChanges = <<>>

\* the saveLocalData of the cycle of caller t is answered in this step: the
\* object the cycle loaded and changed is stored and the call returns
SaveStep(t) ==
  /\ tabs[Editor][t].phase = "put" /\ tabs'[Editor][t].phase = "idle"
  /\ last'.outcome = "ok"

\* another cycle ended with a save after the cycle of caller t had loaded:
\* the stored record is no longer the one t holds a changed copy of
Overtaken(t) == db[Editor].exists /\ db[Editor] # tabs[Editor][t].seen

CategoryCalls == {"addCategory", "deleteCategory"}

\* C18 (no mutual exclusion on the local record): when the load-mutate-save
\* cycles of two store calls on one client interleave, the later save reports
\* success and the stored record is exactly the object it wrote, computed from
\* its own stale load; the edit of the earlier call, which was stored and
\* reported success, is absent: a category it added is missing, one it
\* deleted is back, and the baseline and sync time a push or pull cycle wrote
\* are those of before.
C18_LaterWriteWins ==
  [][\A t \in Tabs :
       SaveStep(t)
       => LET mine == tabs[Editor][t]
          IN /\ db'[Editor] = mine.data
             /\ Overtaken(t)
                => /\ \A id \in CatIds :
                        /\ (/\ MapHas(db[Editor].categories, id)
                            /\ ~MapHas(mine.seen.categories, id)
                            /\ ~(mine.call = "addCategory" /\ mine.arg = id))
                           => ~MapHas(db'[Editor].categories, id)
                        /\ (/\ ~MapHas(db[Editor].categories, id)
                            /\ MapHas(mine.seen.categories, id)
                            /\ mine.call # "loadFromRegistry"
                            /\ ~(mine.call = "deleteCategory" /\ mine.arg = id))
                           => MapHas(db'[Editor].categories, id)
                   /\ mine.call \in CategoryCalls
                      => /\ db'[Editor].baselineCategories = mine.seen.baselineCategories
                         /\ db'[Editor].lastSyncTime = mine.seen.lastSyncTime]_vars

\* two callers loaded the empty record and each added its own category; the
\* save of c1 was answered first and reported success, the save of c2 then
\* replaced a record that held the pending create of c1: only c2 is stored
C18_Witness ==
  /\ now = 2
  /\ last.op = "addCategory" /\ last.outcome = "ok"
  /\ \A t \in Tabs : tabs[Editor][t].phase = "idle"
  /\ focus[Editor].id = "c2" /\ focus[Editor].ops = <<"create">>
  /\ ~focus[Editor].clean
  /\ MapKeys(db[Editor].categories) = {"c2"}
  /\ Len(db[Editor].pendingChanges) = 1

\* initialize() of client c is in flight / is inside its syncFromGoogleDrive()
Initializing(c) == op[c] = "initialize"
InPull(c) ==
  pc[c] \notin {"idle", "init_open", "init_auth", "init_find", "init_create",
                "init_check"}
Returns(c) == pc[c] # "idle" /\ pc'[c] = "idle"

\* every step of an initialize() that began on a synced record: it is a step
\* before the pull (the two services, the folder look-ups, getLocalData), no
\* registry file is found, read, created or updated, the stored record is
\* untouched
SkipsSync(c) ==
  /\ db'[c] = db[c]
  /\ remote' = remote /\ parents' = parents
  /\ ~InPull(c) /\ ~InPull(c)'

\* C19 as stated (initialize pulls only when never synced): an initialize()
\* that began with a non-null stored lastSyncTime makes no find, read, create
\* or update call for the registry document and leaves the stored record
\* unchanged; one that began with a null lastSyncTime runs exactly one pull
\* before it ends.
C19_PullIffNeverSynced ==
  [][\A c \in Clients :
       Initializing(c)
       => /\ before[c].lastSyncTime # NoTime => SkipsSync(c)
          /\ pc'[c] = "pull_find" => pc[c] = "init_check"
          /\ (before[c].lastSyncTime = NoTime /\ Returns(c)) => InPull(c)]_vars

\* C19 amended: as stated for a synced record; with a null lastSyncTime an
\* initialize() that gets past localDB.initialize(),
\* googleDriveService.initialize() and getLocalData() runs exactly one pull,
\* so every normal return comes out of that pull, and one in which any of
\* the three throws ends with that error having run no pull.
C19_PullWhenReached ==
  [][\A c \in Clients :
       Initializing(c)
       => /\ before[c].lastSyncTime # NoTime => SkipsSync(c)
          /\ pc'[c] = "pull_find"
               => pc[c] = "init_check" /\ before[c].lastSyncTime = NoTime
          /\ (before[c].lastSyncTime = NoTime /\ pc[c] = "init_check")
               => \/ pc'[c] = "pull_find"
                  \/ Returns(c) /\ last'.outcome = "error"
          /\ (before[c].lastSyncTime = NoTime /\ Returns(c))
               => InPull(c) \/ last'.outcome = "error"]_vars

\* an initialize() on a record with a sync time and pending changes returned
\* normally and the record is as it was
C19_Witness ==
  /\ LastWas(Editor, "initialize") /\ last.outcome = "ok"
  /\ before[Editor].lastSyncTime # NoTime
  /\ before[Editor].pendingChanges # <<>>
  /\ db[Editor] = before[Editor]

\* the states of the sync state machine
Unsynced(d) == d.lastSyncTime = NoTime
Synced(d) == d.pendingChanges = <<>>
Dirty(d) == d.pendingChanges # <<>>

\* the step of a CRUD call of c, respectively of a pull, that writes the
\* local record
CrudCall(c) ==
  \E t \in Tabs : /\ tabs[c][t].kind # "none"
                  /\ tabs[c][t].phase = "put" /\ tabs'[c][t].phase = "idle"
PullWrites(c) ==
  /\ op[c] \in {"pull", "initialize"}
  /\ pc[c] \in {"pull_load_put", "pull_default_put", "pull_catch_put"}

\* C20 (sync state machine): every step follows the listed transitions.
\* Synced and Dirty are exchanged by CRUD calls; apart from those a Dirty
\* record becomes Synced only through a push, and that push is a successful
\* one, or through a pull that overwrites it; the current maps are replaced
\* and lastSyncTime is reset only through a pull; a Synced record becomes
\* Dirty only through a CRUD call.
C20_SyncStateMachine ==
  [][\A c \in Clients :
       ~ClearSiteData(c)
       => /\ (Dirty(db[c]) /\ Synced(db'[c]))
               => \/ CrudCall(c) \/ PullWrites(c)
                  \/ (op[c] = "push" /\ pc[c] = "push_clear_put")
          /\ (op[c] = "push" /\ Returns(c) /\ Dirty(before[c]) /\ Synced(db'[c]))
               => last'.outcome = "ok"
          /\ (Synced(db[c]) /\ Dirty(db'[c])) => CrudCall(c)
          /\ (~Unsynced(db[c]) /\ Unsynced(db'[c])) => PullWrites(c)
          /\ (\/ db'[c].ingredients # db[c].ingredients
               \/ db'[c].categories # db[c].categories)
               => CrudCall(c) \/ PullWrites(c)]_vars

\* the entries of a pending list for one entity
For(changes, type, id) ==
  SelectSeq(changes, LAMBDA e : e.type = type /\ e.data.id = id)

\* what addIngredient leaves whichever the id: the ingredient is in current
\* and embeds the category stored under categoryId
Embedded(c, id, categoryId) ==
  /\ MapHas(db'[c].ingredients, id)
  /\ MapGet(db'[c].ingredients, id).category = MapGet(db[c].categories, categoryId)

\* exactly one pending entry for the ingredient, a create with its snapshot
OneCreate(c, id) ==
  LET entries == For(db'[c].pendingChanges, "ingredient", id)
  IN /\ Len(entries) = 1
     /\ entries[1].operation = "create"
     /\ entries[1].data = MapGet(db'[c].ingredients, id)

\* addIngredient does not throw its not-found error when categoryId is a key
\* of current.categories
Resolves(c) ==
  Starts(c, "addIngredient") =>
    \A id \in IngIds, name \in Names, cat \in CatIds :
      (MapHas(getLocalData(c).categories, cat) /\ AddIngredient(c, id, name, cat))
      => \/ Ended(c, "error")
         \/ \E t \in Tabs : /\ tabs'[c][t].phase = "load"
                            /\ tabs'[c][t].given.category
                                 = MapGet(db[c].categories, cat)

\* C21 as stated (scenario B): when categoryId is a key of current.categories,
\* createIngredient stores an ingredient with the supplied id that embeds the
\* category stored under categoryId, and if the id is not in baseline
\* pendingChanges holds exactly one more entry than before, a create for that
\* ingredient.
C21_ScenarioB ==
  [][\A c \in Clients :
       /\ Resolves(c)
       /\ \A t \in Tabs :
            Saves(c, t, "addIngredient")
            => LET id == tabs[c][t].arg
                   cat == tabs[c][t].given.category.id
               IN /\ Embedded(c, id, cat)
                  /\ ~MapHas(db[c].baselineIngredients, id)
                     => /\ OneCreate(c, id)
                        /\ Len(db'[c].pendingChanges) =
                             Len(db[c].pendingChanges) + 1]_vars

\* C21 amended: as stated, except that the number of entries grows by one
\* only when the id was not yet in current; when a supplied id is already in
\* current (and not in baseline) the stored ingredient and its create entry
\* are replaced and the number of entries stays the same.
C21_CreateEntry ==
  [][\A c \in Clients :
       /\ Resolves(c)
       /\ \A t \in Tabs :
            Saves(c, t, "addIngredient")
            => LET id == tabs[c][t].arg
                   cat == tabs[c][t].given.category.id
               IN /\ Embedded(c, id, cat)
                  /\ ~MapHas(db[c].baselineIngredients, id)
                     => /\ OneCreate(c, id)
                        /\ Len(db'[c].pendingChanges) =
                             Len(db[c].pendingChanges)
                               + (IF MapHas(db[c].ingredients, id) THEN 0 ELSE 1)]_vars

\* an ingredient was just added under a new id to a synced record that holds
\* its category: one entry, a create
C21_Witness ==
  /\ LastWas(Editor, "addIngredient") /\ last.outcome = "ok"
  /\ db[Editor].lastSyncTime # NoTime
  /\ MapHas(db[Editor].baselineCategories, "c1")
  /\ Len(db[Editor].pendingChanges) = 1
  /\ db[Editor].pendingChanges[1].operation = "create"
  /\ db[Editor].pendingChanges[1].type = "ingredient"
  /\ db[Editor].pendingChanges[1].data.category.id = "c1"

\* the entries of one kind in a pending list
OfKind(changes, type) == SelectSeq(changes, LAMBDA e : e.type = type)

\* C22 (deleteCategory does not cascade): a deleteCategory call leaves the
\* ingredient map of current as it was, ingredients embedding the deleted
\* category included, and the pending changes of kind ingredient are the
\* same as before the call.
C22_NoCascade ==
  [][\A c \in Clients :
       (\E t \in Tabs : Saves(c, t, "deleteCategory"))
       => /\ db'[c].ingredients = db[c].ingredients
          /\ Content(OfKind(db'[c].pendingChanges, "ingredient"))
               = Content(OfKind(db[c].pendingChanges, "ingredient"))]_vars

\* the category c1 was just deleted and the ingredient embedding it is still
\* in current
C22_Witness ==
  /\ LastWas(Editor, "deleteCategory")
  /\ focus[Editor].type = "category" /\ focus[Editor].id = "c1"
  /\ focus[Editor].ops[Len(focus[Editor].ops)] = "delete"
  /\ ~MapHas(db[Editor].categories, "c1")
  /\ MapHas(db[Editor].ingredients, "i1")
  /\ MapGet(db[Editor].ingredients, "i1").category.id = "c1"

\* C23 (pendingChanges is never incrementally patched): every call of the
\* local store that writes pendingChanges, addPendingChange included, leaves
\* it either the full recomputation from current and baseline or the empty
\* list with baseline equal to current.
C23_NeverPatched ==
  [][\A c \in Clients :
       db'[c].pendingChanges # db[c].pendingChanges
       => \/ Content(db'[c].pendingChanges) = AllChanges(db'[c])
          \/ /\ db'[c].pendingChanges = <<>>
             /\ db'[c].baselineIngredients = db'[c].ingredients
             /\ db'[c].baselineCategories = db'[c].categories]_vars

\* position of a key in the key order of a map
KeyIndex(m, id) == CHOOSE i \in 1..Len(m) : m[i].id = id

\* C24 (order of pendingChanges): the entries of one kind are never
\* interleaved with those of the other (all ingredient entries, then all
\* category entries), and within a kind the create and update entries come
\* first, in the key order of current, followed by the delete entries.
C24_Order ==
  LET d == db[Editor]
      p == d.pendingChanges
  IN \A i, j \in 1..Len(p) :
       i < j
       => /\ ~(p[i].type = "category" /\ p[j].type = "ingredient")
          /\ p[i].type = p[j].type
             => /\ ~(p[i].operation = "delete" /\ p[j].operation # "delete")
                /\ (p[i].operation # "delete" /\ p[j].operation # "delete")
                   => KeyIndex(CurrentOf(d, p[i].type), p[i].data.id)
                        < KeyIndex(CurrentOf(d, p[j].type), p[j].data.id)

\* a recalculation left an ingredient entry, then the entries of two
\* categories in the key order of current, c2 before c1
C24_Witness ==
  /\ LastWas(Editor, "updateCategory") /\ last.outcome = "ok"
  /\ db[Editor].lastLocalUpdate = now - 1
  /\ Len(db[Editor].pendingChanges) = 3
  /\ db[Editor].pendingChanges[1].type = "ingredient"
  /\ db[Editor].pendingChanges[2].data.id = "c2"
  /\ db[Editor].pendingChanges[3].data.id = "c1"
  /\ db[Editor].pendingChanges[3].operation # "delete"
  /\ \E i \in 1..2 : db[Editor].pendingChanges[i].operation = "delete"

\* C25 (push racing a local edit): whatever CRUD calls run between the steps
\* of a push, when the push returns successfully the stored baseline equals
\* the entity maps this push wrote to the remote document, and every entity
\* of current that is not in those maps has a pending change.
C25_PushRace ==
  [][\A c \in Clients :
       (op[c] = "push" /\ Returns(c) /\ last'.outcome = "ok")
       => /\ db'[c].baselineIngredients = registry[c].ingredients
          /\ db'[c].baselineCategories = registry[c].categories
          /\ \A id \in CatIds :
               (MapHas(db'[c].categories, id) /\ ~MapHas(registry[c].categories, id))
               => For(db'[c].pendingChanges, "category", id) # <<>>]_vars

\* the ids of the entities in the remote document
RemoteIds(files) ==
  IF files = <<>> THEN {}
  ELSE MapKeys(files[1].ingredients) \cup MapKeys(files[1].categories)

\* C26 (no remote data loss from a single client): with one client that
\* issues no delete, every entity of the remote document stays in it through
\* every step of initialize, pull, CRUD and push, whichever calls fail.
C26_NoRemoteLoss ==
  [][RemoteIds(remote) \subseteq RemoteIds(remote')]_vars

\* C27 (single remote document): after any interleaving of pushes and
\* not-found pulls, each doing find, then update if found, else create, the
\* remote folder holds at most one registry document.
C27_SingleDocument == Len(remote) <= 1

\* C28 (concurrent initialize()): isLoading is set exactly while an
\* initialize() is running; a caller that found it set leaves the wait loop
\* only when no initialize() is running any more, whether that one succeeded
\* or failed, and touches neither store; the pull is started by the call in
\* flight only; and every caller in the wait loop eventually returns.
C28_ConcurrentInitialize ==
  /\ [](\A c \in Clients : isLoading[c] <=> Initializing(c))
  /\ [][\A c \in Clients :
          /\ waiting'[c] < waiting[c] => ~Initializing(c)
          /\ waiting'[c] # waiting[c]
               => db' = db /\ remote' = remote /\ pc' = pc /\ isLoading' = isLoading
          /\ (pc'[c] = "pull_find" /\ pc[c] # "pull_find")
               => pc[c] = "init_check" /\ waiting' = waiting]_vars
  /\ \A c \in Clients : (waiting[c] > 0) ~> (waiting[c] = 0)

\* the initialize() in flight has failed while two callers were in the wait
\* loop; they have not returned yet
C28_Witness ==
  /\ waiting[Editor] = 2
  /\ ~isLoading[Editor]
  /\ last.client = Editor /\ last.op = "initialize" /\ last.outcome = "error"
  /\ db[Editor].lastSyncTime = NoTime

\* C29 (embedded category copies stay consistent): in every stored record
\* each ingredient of current whose category.id is a key of
\* current.categories embeds a category equal, field by field, to the entry
\* stored under that key, also after updateCategory.
C29_EmbeddedCopies ==
  \A c \in Clients :
    \A k \in 1..Len(db[c].ingredients) :
      LET embedded == db[c].ingredients[k].category
          stored == MapGet(db[c].categories, embedded.id)
          Defined(x) == IF x = UNDEF THEN ABSENT ELSE x
      IN MapHas(db[c].categories, embedded.id)
         => /\ embedded.name = stored.name
            /\ Defined(embedded.description) = Defined(stored.description)
            /\ Defined(embedded.color) = Defined(stored.color)

\* C30 (lastSyncTime is stable once set): once the stored lastSyncTime is
\* non-null, no store call and no interleaving of the cycles of CRUD, push
\* and pull calls stores a record whose lastSyncTime is null.
C30_SyncTimeStable ==
  [][\A c \in Clients :
       db[c].lastSyncTime # NoTime => db'[c].lastSyncTime # NoTime]_vars
====
